---- MODULE Spec2Model ----
(***************************************************************************)
(* A model of the recursive-descent parser of src/src/parse.rs.            *)
(*                                                                         *)
(* The token sequence is the output of the lexer (crate::lex, external).   *)
(* The parser session is the struct Parser {tokens, index, errors} and the *)
(* local `items` of parse().  Every production is an operator that takes   *)
(* the token sequence and the cursor index and returns its result together *)
(* with the cursor index it leaves behind (the `&mut self` effect).        *)
(*                                                                         *)
(* Encodings.                                                              *)
(*   Option<T>                 <<>> (None) or <<v>> (Some(v))              *)
(*   cursor call -> Option<T>  [opt |-> Option, idx |-> index after]       *)
(*   ParseResult<Option<T>>    [tag |-> "Some", val, idx]                  *)
(*                             [tag |-> "None", idx]                       *)
(*                             [tag |-> "Err", err, idx]                   *)
(*   ParseResult<T>            the same without the "None" case            *)
(*   Sp<T>                     [span |-> [start, end], value |-> v]        *)
(* The index is 0-based as in the code: tokens.get(i) is toks[i + 1].      *)
(***************************************************************************)
EXTENDS Integers, Sequences, FiniteSets, TLC

VARIABLES
    tokens,   \* Parser.tokens: Vec<Sp<Token>>
    index,    \* Parser.index
    errors,   \* Parser.errors
    items,    \* the local `items` of parse()
    pc,       \* position in parse(): "items" (loop), "eof" (after loop), "returned"
    result    \* the value parse() returned; <<>> until it returns

vars == <<tokens, index, errors, items, pc, result>>

----------------------------------------------------------------------------
(* Tokens and spans (crate::lex)                                           *)

Simple(s) == [kind |-> "Simple", text |-> s]
Keyword(k) == [kind |-> "Keyword", text |-> k]
Ident(n) == [kind |-> "Ident", text |-> n]
Integer(n) == [kind |-> "Integer", text |-> n]
Real(n) == [kind |-> "Real", text |-> n]
Comment(c) == [kind |-> "Comment", text |-> c]
DocComment(c) == [kind |-> "DocComment", text |-> c]

Span(s, e) == [start |-> s, end |-> e]
Sp(span, v) == [span |-> span, value |-> v]

\* Span::merge: the smallest span covering both.
merge(a, b) ==
    Span(IF a.start <= b.start THEN a.start ELSE b.start,
         IF a.end >= b.end THEN a.end ELSE b.end)

\* The lexer's output for a sequence of token values: the k-th token (k from
\* 1) occupies the positions 2(k-1) .. 2(k-1)+1, one blank between tokens.
TokenSpan(k) == Span(2 * (k - 1), 2 * (k - 1) + 1)
lex(values) == [k \in 1..Len(values) |-> Sp(TokenSpan(k), values[k])]

as_ident(t) == IF t.kind = "Ident" THEN <<t.text>> ELSE <<>>
as_integer(t) == IF t.kind = "Integer" THEN <<t.text>> ELSE <<>>
as_real(t) == IF t.kind = "Real" THEN <<t.text>> ELSE <<>>

----------------------------------------------------------------------------
(* Results                                                                 *)

Some(v, i) == [tag |-> "Some", val |-> v, idx |-> i]
None(i) == [tag |-> "None", idx |-> i]
Err(e, i) == [tag |-> "Err", err |-> e, idx |-> i]

----------------------------------------------------------------------------
(* Token cursor                                                            *)

\* skip_comments with ordinary comments left at the cursor.
skip_nothing(toks, i) == i

\* The comment branch of next_token_map's loop: the index after the
\* ordinary comments at the cursor.
RECURSIVE skip_comments(_, _)
skip_comments(toks, i) ==
    IF i < Len(toks) /\ toks[i + 1].value.kind = "Comment"
    THEN skip_comments(toks, i + 1)
    ELSE i

\* The closures the code passes to next_token_map, and their application.
FnExact(token) == [fn |-> "exact", token |-> token]
FnIdent == [fn |-> "as_ident", token |-> Ident("")]
FnInteger == [fn |-> "as_integer", token |-> Ident("")]
FnReal == [fn |-> "as_real", token |-> Ident("")]
FnDoc == [fn |-> "doc_line", token |-> Ident("")]
FnNever == [fn |-> "never", token |-> Ident("")]

apply(f, t) ==
    CASE f.fn = "exact" -> IF t = f.token THEN <<TRUE>> ELSE <<>>
      [] f.fn = "as_ident" -> as_ident(t)
      [] f.fn = "as_integer" -> as_integer(t)
      [] f.fn = "as_real" -> as_real(t)
      [] f.fn = "doc_line" -> IF t.kind = "DocComment" THEN <<t.text>> ELSE <<>>
      [] OTHER -> <<>>

\* next_token_map with the cursor put back where it was when the predicate
\* rejects the token.
next_token_map_rewind(toks, i, f) ==
    LET j == skip_comments(toks, i) IN
    IF j < Len(toks) /\ apply(f, toks[j + 1].value) # <<>>
    THEN [opt |-> <<Sp(toks[j + 1].span, apply(f, toks[j + 1].value)[1])>>, idx |-> j + 1]
    ELSE [opt |-> <<>>, idx |-> i]

\* Option<Sp<T>>
next_token_map(toks, i, f) ==
    LET j == skip_comments(toks, i) IN
    IF j < Len(toks) /\ apply(f, toks[j + 1].value) # <<>>
    THEN [opt |-> <<Sp(toks[j + 1].span, apply(f, toks[j + 1].value)[1])>>, idx |-> j + 1]
    ELSE [opt |-> <<>>, idx |-> j]

\* Option<Span>
try_exact(toks, i, token) ==
    LET r == next_token_map(toks, i, FnExact(token)) IN
    [opt |-> IF r.opt = <<>> THEN <<>> ELSE <<r.opt[1].span>>, idx |-> r.idx]

\* `self.tokens.last().unwrap()` panics on an empty token sequence: PanicSpan
\* stands for that outcome.
PanicSpan == Span(-1, -1)

\* last_span with the whole span of the last token at the end of input.
last_span_whole(toks, i) ==
    IF i < Len(toks) THEN toks[i + 1].span ELSE toks[Len(toks)].span

last_span(toks, i) ==
    IF i < Len(toks)
    THEN toks[i + 1].span
    ELSE IF Len(toks) = 0
    THEN PanicSpan
    ELSE LET last == toks[Len(toks)].span IN
         Span(last.end, IF Len(toks) > last.end THEN last.end + 1 ELSE last.end)

\* expected with `found` read one token past the cursor.
expected_off_by_one(toks, i, expectations) ==
    Sp(last_span(toks, i),
       [exps |-> expectations,
        found |-> IF i + 1 < Len(toks) THEN <<toks[i + 2]>> ELSE <<>>])

\* ParseError::Expected(expectations, found), spanned by last_span().
expected(toks, i, expectations) ==
    Sp(last_span(toks, i),
       [exps |-> expectations,
        found |-> IF i < Len(toks) THEN <<toks[i + 1]>> ELSE <<>>])

ExpSimple(s) == [kind |-> "Simple", text |-> s]
ExpIdent == [kind |-> "Ident", text |-> ""]
ExpBlock == [kind |-> "Block", text |-> ""]
ExpType == [kind |-> "Type", text |-> ""]
ExpExpr == [kind |-> "Expr", text |-> ""]
ExpPattern == [kind |-> "Pattern", text |-> ""]
ExpEof == [kind |-> "Eof", text |-> ""]

\* ParseResult<Span>
expect(toks, i, simple) ==
    LET r == try_exact(toks, i, Simple(simple)) IN
    IF r.opt # <<>>
    THEN Some(r.opt[1], r.idx)
    ELSE Err(expected(toks, r.idx, <<ExpSimple(simple)>>), r.idx)

\* Option<Sp<String>>
try_ident(toks, i) == next_token_map(toks, i, FnIdent)

ident(toks, i) ==
    LET r == try_ident(toks, i) IN
    IF r.opt # <<>>
    THEN Some(r.opt[1], r.idx)
    ELSE Err(expected(toks, r.idx, <<ExpIdent>>), r.idx)

----------------------------------------------------------------------------
(* Grammar productions.  A call `self.<name>(args)` of a production is      *)
(* written call("<name>", toks, i, <<args>>); `call` is defined last.       *)

RECURSIVE call(_, _, _, _)

\* One (token, operator) row of an operator table.
Op(token, op) == [token |-> token, op |-> op]

\* BIN_EXPR_OR with the additive tier nested inside the multiplicative one.
BIN_EXPR_OR_swapped ==
    << <<Op(Keyword("or"), "Or")>>,
       <<Op(Keyword("and"), "And")>>,
       <<Op(Simple("=="), "Eq"), Op(Simple("!="), "Ne"), Op(Simple("<"), "Lt"),
         Op(Simple("<="), "Le"), Op(Simple(">"), "Gt"), Op(Simple(">="), "Ge")>>,
       <<Op(Simple("*"), "Mul"), Op(Simple("/"), "Div")>>,
       <<Op(Simple("+"), "Add"), Op(Simple("-"), "Sub")>> >>

\* BinExprDef, from the loosest tier to the tightest: BIN_EXPR_OR[d] is the
\* `ops` of the d-th definition and child(d) its `child`.
BIN_EXPR_OR ==
    << <<Op(Keyword("or"), "Or")>>,
       <<Op(Keyword("and"), "And")>>,
       <<Op(Simple("=="), "Eq"), Op(Simple("!="), "Ne"), Op(Simple("<"), "Lt"),
         Op(Simple("<="), "Le"), Op(Simple(">"), "Gt"), Op(Simple(">="), "Ge")>>,
       <<Op(Simple("+"), "Add"), Op(Simple("-"), "Sub")>>,
       <<Op(Simple("*"), "Mul"), Op(Simple("/"), "Div")>> >>

child(d) == IF d < Len(BIN_EXPR_OR) THEN <<d + 1>> ELSE <<>>

\* The assignment operators of try_expr, with the Option<BinOp> each implies.
ASSIGN_OPS ==
    <<Op(Simple("="), <<>>), Op(Simple("+="), <<"Add">>), Op(Simple("-="), <<"Sub">>),
      Op(Simple("*="), <<"Mul">>), Op(Simple("/="), <<"Div">>)>>

\* The prefix operators of try_un_expr.
UN_OPS == <<Op(Simple("-"), "Neg"), Op(Keyword("not"), "Not")>>

\* `find_map(|(token, op)| self.try_exact(token).map(|span| span.sp(op)))`
\* and the `for (token, op) in def.ops` of try_bin_expr_def: the first row,
\* from the k-th on, whose token is at the cursor.  Option<Sp<op>>.
RECURSIVE find_op(_, _, _, _)
find_op(toks, i, ops, k) ==
    IF k > Len(ops) THEN [opt |-> <<>>, idx |-> i] ELSE
    LET r == try_exact(toks, i, ops[k].token) IN
    IF r.opt # <<>>
    THEN [opt |-> <<Sp(r.opt[1], ops[k].op)>>, idx |-> r.idx]
    ELSE find_op(toks, r.idx, ops, k + 1)

RECURSIVE doc_loop(_, _, _)

\* doc_loop with every line replacing the documentation read before it.
doc_loop_last(toks, i, doc) ==
    LET line == next_token_map(toks, i, FnDoc) IN
    IF line.opt = <<>>
    THEN [opt |-> doc, idx |-> line.idx]
    ELSE doc_loop(toks, line.idx, <<line.opt[1]>>)

\* The loop of doc_comment: `doc` is the Option<Sp<String>> accumulated so far.
doc_loop(toks, i, doc) ==
    LET line == next_token_map(toks, i, FnDoc) IN
    IF line.opt = <<>>
    THEN [opt |-> doc, idx |-> line.idx]
    ELSE doc_loop(toks, line.idx,
            IF doc # <<>>
            THEN <<Sp(Span(doc[1].span.start, line.opt[1].span.end),
                      doc[1].value \o line.opt[1].value)>>
            ELSE <<line.opt[1]>>)

\* Option<Sp<String>>
doc_comment(toks, i) == doc_loop(toks, i, <<>>)

ty(toks, i) ==
    LET r == call("try_ty", toks, i, <<>>) IN
    IF r.tag = "None" THEN Err(expected(toks, r.idx, <<ExpType>>), r.idx) ELSE r

\* The array branch of try_ty, after `[` was consumed.
ty_array(toks, i) ==
    LET inner == ty(toks, i) IN
    IF inner.tag = "Err" THEN inner ELSE
    LET close == expect(toks, inner.idx, "]") IN
    IF close.tag = "Err" THEN close ELSE
    Some(Sp(inner.val.span, [kind |-> "Array", inner |-> inner.val]), close.idx)

\* The loop of the tuple branch of try_ty.
ty_loop(toks, i, tys) ==
    LET t == call("try_ty", toks, i, <<>>) IN
    IF t.tag = "Err" THEN t ELSE
    IF t.tag = "None" THEN Some(tys, t.idx) ELSE
    LET comma == try_exact(toks, t.idx, Simple(",")) IN
    IF comma.opt = <<>>
    THEN Some(Append(tys, t.val), comma.idx)
    ELSE call("ty_loop", toks, comma.idx, <<Append(tys, t.val)>>)

try_ty(toks, i) ==
    LET id == try_ident(toks, i) IN
    IF id.opt # <<>>
    THEN Some(Sp(id.opt[1].span, [kind |-> "Ident", name |-> id.opt[1].value]), id.idx)
    ELSE
    LET ob == try_exact(toks, id.idx, Simple("[")) IN
    IF ob.opt # <<>> THEN call("ty_array", toks, ob.idx, <<>>) ELSE
    LET start == try_exact(toks, ob.idx, Simple("(")) IN
    IF start.opt = <<>> THEN None(start.idx) ELSE
    LET tys == call("ty_loop", toks, start.idx, <<<<>>>>) IN
    IF tys.tag = "Err" THEN tys ELSE
    LET end == expect(toks, tys.idx, ")") IN
    IF end.tag = "Err" THEN end ELSE
    Some(Sp(merge(start.opt[1], end.val), [kind |-> "Tuple", items |-> tys.val]), end.idx)

try_param(toks, i) ==
    LET name == try_ident(toks, i) IN
    IF name.opt = <<>> THEN None(name.idx) ELSE
    LET colon == expect(toks, name.idx, ":") IN
    IF colon.tag = "Err" THEN colon ELSE
    LET t == ty(toks, colon.idx) IN
    IF t.tag = "Err" THEN t ELSE
    Some([name |-> name.opt[1], ty |-> t.val], t.idx)

\* The `item` argument of try_surrounded_list: Self::try_param,
\* Self::try_pattern or Self::try_expr.
list_item(toks, i, item) ==
    CASE item = "param" -> call("try_param", toks, i, <<>>)
      [] item = "pattern" -> call("try_pattern", toks, i, <<>>)
      [] item = "expr" -> call("try_expr", toks, i, <<>>)

RECURSIVE list_loop(_, _, _, _)

\* list_loop with an item required after every separator.
list_loop_strict(toks, i, item, acc) ==
    LET r == list_item(toks, i, item) IN
    IF r.tag = "Err" THEN r ELSE
    IF r.tag = "None"
    THEN IF acc = <<>> THEN Some(acc, r.idx)
         ELSE Err(expected(toks, r.idx, <<ExpExpr>>), r.idx)
    ELSE
    LET comma == try_exact(toks, r.idx, Simple(",")) IN
    IF comma.opt = <<>>
    THEN Some(Append(acc, r.val), comma.idx)
    ELSE list_loop(toks, comma.idx, item, Append(acc, r.val))

\* The loop of try_surrounded_list.
list_loop(toks, i, item, acc) ==
    LET r == list_item(toks, i, item) IN
    IF r.tag = "Err" THEN r ELSE
    IF r.tag = "None" THEN Some(acc, r.idx) ELSE
    LET comma == try_exact(toks, r.idx, Simple(",")) IN
    IF comma.opt = <<>>
    THEN Some(Append(acc, r.val), comma.idx)
    ELSE list_loop(toks, comma.idx, item, Append(acc, r.val))

try_surrounded_list(toks, i, open, close, item) ==
    LET start == try_exact(toks, i, Simple(open)) IN
    IF start.opt = <<>> THEN None(start.idx) ELSE
    LET body == list_loop(toks, start.idx, item, <<>>) IN
    IF body.tag = "Err" THEN body ELSE
    LET end == expect(toks, body.idx, close) IN
    IF end.tag = "Err" THEN end ELSE
    Some(Sp(merge(start.opt[1], end.val), body.val), end.idx)

surrounded_list(toks, i, open, close, item) ==
    LET r == call("try_surrounded_list", toks, i, <<open, close, item>>) IN
    IF r.tag = "None" THEN Err(expected(toks, r.idx, <<ExpSimple(open)>>), r.idx) ELSE r

try_pattern(toks, i) ==
    LET id == try_ident(toks, i) IN
    IF id.opt # <<>>
    THEN Some(Sp(id.opt[1].span, [kind |-> "Ident", name |-> id.opt[1].value]), id.idx)
    ELSE
    LET l == call("try_surrounded_list", toks, id.idx, <<"(", ")", "pattern">>) IN
    IF l.tag = "Some"
    THEN Some(Sp(l.val.span, [kind |-> "Tuple", items |-> l.val.value]), l.idx)
    ELSE l

pattern(toks, i) ==
    LET r == call("try_pattern", toks, i, <<>>) IN
    IF r.tag = "None" THEN Err(expected(toks, r.idx, <<ExpPattern>>), r.idx) ELSE r

\* `while let Some(item) = self.try_item()? { items.push(item) }` of try_block.
item_loop(toks, i, acc) ==
    LET r == call("try_item", toks, i, <<>>) IN
    IF r.tag = "Err" THEN r ELSE
    IF r.tag = "None" THEN Some(acc, r.idx) ELSE
    call("item_loop", toks, r.idx, <<Append(acc, r.val)>>)

try_block(toks, i) ==
    LET start == try_exact(toks, i, Simple("{")) IN
    IF start.opt = <<>> THEN None(start.idx) ELSE
    LET body == call("item_loop", toks, start.idx, <<<<>>>>) IN
    IF body.tag = "Err" THEN body ELSE
    LET end == expect(toks, body.idx, "}") IN
    IF end.tag = "Err" THEN end ELSE
    Some(Sp(merge(start.opt[1], end.val), [items |-> body.val]), end.idx)

block(toks, i) ==
    LET r == call("try_block", toks, i, <<>>) IN
    IF r.tag = "None" THEN Err(expected(toks, r.idx, <<ExpBlock>>), r.idx) ELSE r

\* tuple_term with a single expression in parentheses, written without a
\* trailing comma, parsed as that expression.
tuple_term_grouping(toks, i) ==
    LET tuple == call("try_surrounded_list", toks, i, <<"(", ")", "expr">>) IN
    IF tuple.tag # "Some" THEN tuple ELSE
    IF Len(tuple.val.value) = 1 /\ tuple.val.value[1].span.end + 2 = tuple.val.span.end
    THEN Some(tuple.val.value[1], tuple.idx)
    ELSE Some(Sp(tuple.val.span, [kind |-> "Tuple", items |-> tuple.val.value]), tuple.idx)

\* The tuple branch of try_term: `items.map(Expr::Tuple)`.
tuple_term(toks, i) ==
    LET tuple == call("try_surrounded_list", toks, i, <<"(", ")", "expr">>) IN
    IF tuple.tag = "Some"
    THEN Some(Sp(tuple.val.span, [kind |-> "Tuple", items |-> tuple.val.value]), tuple.idx)
    ELSE tuple

\* The literal branches of try_term: identifier, integer, real, true, false.
term_literal(toks, i) ==
    LET id == try_ident(toks, i) IN
    IF id.opt # <<>>
    THEN Some(Sp(id.opt[1].span, [kind |-> "Ident", name |-> id.opt[1].value]), id.idx)
    ELSE
    LET int == next_token_map(toks, id.idx, FnInteger) IN
    IF int.opt # <<>>
    THEN Some(Sp(int.opt[1].span, [kind |-> "Integer", name |-> int.opt[1].value]), int.idx)
    ELSE
    LET real == next_token_map(toks, int.idx, FnReal) IN
    IF real.opt # <<>>
    THEN Some(Sp(real.opt[1].span, [kind |-> "Real", name |-> real.opt[1].value]), real.idx)
    ELSE
    LET t == try_exact(toks, real.idx, Keyword("true")) IN
    IF t.opt # <<>>
    THEN Some(Sp(t.opt[1], [kind |-> "Bool", name |-> "true"]), t.idx)
    ELSE
    LET f == try_exact(toks, t.idx, Keyword("false")) IN
    IF f.opt # <<>>
    THEN Some(Sp(f.opt[1], [kind |-> "Bool", name |-> "false"]), f.idx)
    ELSE None(f.idx)

try_term(toks, i) ==
    LET lit == term_literal(toks, i) IN
    IF lit.tag = "Some" THEN lit ELSE
    LET b == call("try_block", toks, lit.idx, <<>>) IN
    IF b.tag = "Err" THEN b ELSE
    IF b.tag = "Some"
    THEN Some(Sp(b.val.span, [kind |-> "Block", items |-> b.val.value.items]), b.idx)
    ELSE
    LET tuple == tuple_term(toks, b.idx) IN
    IF tuple.tag # "None" THEN tuple ELSE
    LET array == try_surrounded_list(toks, tuple.idx, "[", "]", "expr") IN
    IF array.tag = "Some"
    THEN Some(Sp(array.val.span, [kind |-> "Array", items |-> array.val.value]), array.idx)
    ELSE array

\* call_access_loop ending after the first suffix.
call_access_single(toks, i, e) ==
    LET args == try_surrounded_list(toks, i, "(", ")", "expr") IN
    IF args.tag = "Err" THEN args ELSE
    IF args.tag = "Some"
    THEN Some(Sp(merge(e.span, args.val.span),
                 [kind |-> "Call", expr |-> e, args |-> args.val.value]), args.idx)
    ELSE
    LET period == try_exact(toks, args.idx, Simple(".")) IN
    IF period.opt = <<>> THEN Some(e, period.idx) ELSE
    LET id == ident(toks, period.idx) IN
    IF id.tag = "Err" THEN id ELSE
    Some(Sp(merge(e.span, id.val.span),
            [kind |-> "Access", expr |-> e, accessor |-> id.val]), id.idx)

\* The loop of try_call_access; `e` is the running expression.
RECURSIVE call_access_loop(_, _, _)
call_access_loop(toks, i, e) ==
    LET args == call("try_surrounded_list", toks, i, <<"(", ")", "expr">>) IN
    IF args.tag = "Err" THEN args ELSE
    IF args.tag = "Some"
    THEN call_access_loop(toks, args.idx, Sp(merge(e.span, args.val.span),
               [kind |-> "Call", expr |-> e, args |-> args.val.value]))
    ELSE
    LET period == try_exact(toks, args.idx, Simple(".")) IN
    IF period.opt = <<>> THEN Some(e, period.idx) ELSE
    LET id == ident(toks, period.idx) IN
    IF id.tag = "Err" THEN id ELSE
    call_access_loop(toks, id.idx, Sp(merge(e.span, id.val.span),
           [kind |-> "Access", expr |-> e, accessor |-> id.val]))

try_call_access(toks, i) ==
    LET t == call("try_term", toks, i, <<>>) IN
    IF t.tag # "Some" THEN t ELSE
    call_access_loop(toks, t.idx, t.val)

\* un_operand with the operand parsed as a postfix chain, not through
\* try_un_expr itself.
un_operand_postfix(toks, i) ==
    LET r == call("try_call_access", toks, i, <<>>) IN
    IF r.tag = "None" THEN Err(expected(toks, r.idx, <<ExpExpr>>), r.idx) ELSE r

\* `self.expect_expr(Self::try_un_expr)?`: the operand of a prefix operator.
un_operand(toks, i) ==
    LET r == call("try_un_expr", toks, i, <<>>) IN
    IF r.tag = "None" THEN Err(expected(toks, r.idx, <<ExpExpr>>), r.idx) ELSE r

try_un_expr(toks, i) ==
    LET op == find_op(toks, i, UN_OPS, 1) IN
    IF op.opt = <<>> THEN try_call_access(toks, op.idx) ELSE
    LET e == un_operand(toks, op.idx) IN
    IF e.tag = "Err" THEN e ELSE
    Some(Sp(merge(op.opt[1].span, e.val.span),
            [kind |-> "Un", op |-> op.opt[1], expr |-> e.val]), e.idx)

RECURSIVE try_bin_expr_def(_, _, _)

\* The closure `leaf` of try_bin_expr_def.
leaf(toks, i, d) ==
    IF child(d) # <<>>
    THEN try_bin_expr_def(toks, i, child(d)[1])
    ELSE call("try_un_expr", toks, i, <<>>)

\* bin_rhs with the right operand parsed through the operator's own tier.
bin_rhs_same_tier(toks, i, d) ==
    LET r == try_bin_expr_def(toks, i, d) IN
    IF r.tag = "None" THEN Err(expected(toks, r.idx, <<ExpExpr>>), r.idx) ELSE r

\* `self.expect_expr(leaf)?`: the right operand of a binary operator.
bin_rhs(toks, i, d) ==
    LET r == leaf(toks, i, d) IN
    IF r.tag = "None" THEN Err(expected(toks, r.idx, <<ExpExpr>>), r.idx) ELSE r

\* The node try_bin_expr_def builds for `lhs op rhs`.
bin_node(lhs, op, rhs) ==
    Sp(merge(lhs.span, rhs.span), [kind |-> "Bin", lhs |-> lhs, op |-> op, rhs |-> rhs])

\* The loop 'rhs of try_bin_expr_def.
RECURSIVE bin_rhs_loop(_, _, _, _)
bin_rhs_loop(toks, i, d, lhs) ==
    LET op == find_op(toks, i, BIN_EXPR_OR[d], 1) IN
    IF op.opt = <<>> THEN Some(lhs, op.idx) ELSE
    LET rhs == bin_rhs(toks, op.idx, d) IN
    IF rhs.tag = "Err" THEN rhs ELSE
    bin_rhs_loop(toks, rhs.idx, d, bin_node(lhs, op.opt[1], rhs.val))

try_bin_expr_def(toks, i, d) ==
    LET lhs == leaf(toks, i, d) IN
    IF lhs.tag # "Some" THEN lhs ELSE
    bin_rhs_loop(toks, lhs.idx, d, lhs.val)

try_expr_impl(toks, i) == try_bin_expr_def(toks, i, 1)

\* expr reporting a missing pattern where an expression is missing.
expr_expects_pattern(toks, i) ==
    LET r == call("try_expr", toks, i, <<>>) IN
    IF r.tag = "None" THEN Err(expected(toks, r.idx, <<ExpPattern>>), r.idx) ELSE r

\* expect_expr applied to the full expression production.
expr(toks, i) ==
    LET r == call("try_expr", toks, i, <<>>) IN
    IF r.tag = "None" THEN Err(expected(toks, r.idx, <<ExpExpr>>), r.idx) ELSE r

\* assign_rhs with the right-hand side parsed through tier 1 only.
assign_rhs_tier(toks, i) ==
    LET r == try_expr_impl(toks, i) IN
    IF r.tag = "None" THEN Err(expected(toks, r.idx, <<ExpExpr>>), r.idx) ELSE r

\* The right-hand side of an assignment in try_expr: `self.expr()?`.
assign_rhs(toks, i) == expr(toks, i)

try_expr(toks, i) ==
    LET e == try_expr_impl(toks, i) IN
    IF e.tag # "Some" THEN e ELSE
    LET op == find_op(toks, e.idx, ASSIGN_OPS, 1) IN
    IF op.opt = <<>> THEN Some(e.val, op.idx) ELSE
    LET rhs == assign_rhs(toks, op.idx) IN
    IF rhs.tag = "Err" THEN rhs ELSE
    Some(Sp(merge(e.val.span, rhs.val.span),
            [kind |-> "Assign",
             lvalue |-> e.val,
             op |-> IF op.opt[1].value = <<>>
                    THEN <<>>
                    ELSE <<Sp(op.opt[1].span, op.opt[1].value[1])>>,
             expr |-> rhs.val]), rhs.idx)

try_function_def(toks, i) ==
    LET doc == doc_comment(toks, i)
        kw == try_exact(toks, doc.idx, Keyword("fn"))
    IN
    IF kw.opt = <<>> THEN None(kw.idx) ELSE
    LET name == ident(toks, kw.idx) IN
    IF name.tag = "Err" THEN name ELSE
    LET params == surrounded_list(toks, name.idx, "(", ")", "param") IN
    IF params.tag = "Err" THEN params ELSE
    LET body == block(toks, params.idx) IN
    IF body.tag = "Err" THEN body ELSE
    Some([kind |-> "FunctionDef",
          doc |-> doc.opt,
          name |-> name.val,
          params |-> params.val.value,
          body |-> body.val.value], body.idx)

try_binding(toks, i) ==
    LET kw == try_exact(toks, i, Keyword("let")) IN
    IF kw.opt = <<>> THEN None(kw.idx) ELSE
    LET pat == pattern(toks, kw.idx) IN
    IF pat.tag = "Err" THEN pat ELSE
    LET eq == expect(toks, pat.idx, "=") IN
    IF eq.tag = "Err" THEN eq ELSE
    LET e == expr(toks, eq.idx) IN
    IF e.tag = "Err" THEN e ELSE
    LET semi == expect(toks, e.idx, ";") IN
    IF semi.tag = "Err" THEN semi ELSE
    Some([kind |-> "Binding", pattern |-> pat.val, expr |-> e.val], semi.idx)

\* try_item with the `;` after an expression statement optional.
try_item_lenient(toks, i) ==
    LET def == call("try_function_def", toks, i, <<>>) IN
    IF def.tag # "None" THEN def ELSE
    LET binding == call("try_binding", toks, def.idx, <<>>) IN
    IF binding.tag # "None" THEN binding ELSE
    LET e == call("try_expr", toks, binding.idx, <<>>) IN
    IF e.tag = "Err" THEN e ELSE
    IF e.tag = "None" THEN None(e.idx) ELSE
    Some([kind |-> "Expr", expr |-> e.val], try_exact(toks, e.idx, Simple(";")).idx)

try_item(toks, i) ==
    LET def == call("try_function_def", toks, i, <<>>) IN
    IF def.tag # "None" THEN def ELSE
    LET binding == call("try_binding", toks, def.idx, <<>>) IN
    IF binding.tag # "None" THEN binding ELSE
    LET e == call("try_expr", toks, binding.idx, <<>>) IN
    IF e.tag = "Err" THEN e ELSE
    IF e.tag = "None" THEN None(e.idx) ELSE
    LET semi == expect(toks, e.idx, ";") IN
    IF semi.tag = "Err" THEN semi ELSE
    Some([kind |-> "Expr", expr |-> e.val], semi.idx)

\* `self.<name>(args)`: every production is entered through `call`.
call(name, toks, i, a) ==
    CASE name = "try_item" -> try_item(toks, i)
      [] name = "try_function_def" -> try_function_def(toks, i)
      [] name = "try_binding" -> try_binding(toks, i)
      [] name = "try_pattern" -> try_pattern(toks, i)
      [] name = "try_block" -> try_block(toks, i)
      [] name = "item_loop" -> item_loop(toks, i, a[1])
      [] name = "try_param" -> try_param(toks, i)
      [] name = "try_ty" -> try_ty(toks, i)
      [] name = "ty_array" -> ty_array(toks, i)
      [] name = "ty_loop" -> ty_loop(toks, i, a[1])
      [] name = "try_surrounded_list" -> try_surrounded_list(toks, i, a[1], a[2], a[3])
      [] name = "try_expr" -> try_expr(toks, i)
      [] name = "try_un_expr" -> try_un_expr(toks, i)
      [] name = "try_call_access" -> try_call_access(toks, i)
      [] name = "try_term" -> try_term(toks, i)

----------------------------------------------------------------------------
(* Inputs: the token sequences the lexer hands to the parser               *)

KEYWORDS == {"fn", "let", "or", "and", "not", "true", "false"}
SIMPLES ==
    {"(", ")", "[", "]", "{", "}", ",", ";", ":", ".",
     "=", "+=", "-=", "*=", "/=",
     "==", "!=", "<", "<=", ">", ">=", "+", "-", "*", "/"}

\* The token value written `s` in the source text.  "id" stands for an
\* identifier, "1" for an integer literal, "1.5" for a real literal, "//" for
\* an ordinary comment and "///a", "///b" for documentation-comment lines.
Tok(s) ==
    CASE s \in KEYWORDS -> Keyword(s)
      [] s \in SIMPLES -> Simple(s)
      [] s = "id" -> Ident("x")
      [] s = "1" -> Integer("1")
      [] s = "1.5" -> Real("1.5")
      [] s = "//" -> Comment("c")
      [] s = "///a" -> DocComment("a")
      [] s = "///b" -> DocComment("b")

Values(text) == [k \in 1..Len(text) |-> Tok(text[k])]

Alphabet == KEYWORDS \cup SIMPLES \cup {"id", "1", "1.5", "//", "///a", "///b"}

BinOpTexts == {"or", "and", "==", "!=", "<", "<=", ">", ">=", "+", "-", "*", "/"}
AssignOpTexts == {"=", "+=", "-=", "*=", "/="}
PrefixTexts == {"-", "not"}

MaxShort == 2
MaxPrefix == 3
MaxItems == 3
MaxDocs == 3
MaxSuffix == 3

\* All sequences over S of length exactly n / at most n.
RECURSIVE SeqsOfLen(_, _)
SeqsOfLen(S, n) ==
    IF n = 0 THEN {<<>>}
    ELSE {Append(q, x) : q \in SeqsOfLen(S, n - 1), x \in S}

SeqsUpTo(S, n) == UNION {SeqsOfLen(S, k) : k \in 0..n}

\* Every short token sequence.
ShortInputs == SeqsUpTo(Alphabet, MaxShort)

\* `a OP1 b OP2 c ;` for every pair of binary or assignment operators.
OpPairInputs ==
    {<<"id", o1, "id", o2, "id", ";">> :
        o1 \in BinOpTexts \cup AssignOpTexts, o2 \in BinOpTexts \cup AssignOpTexts}

\* Prefix operators before a term, alone and on either side of a binary or
\* assignment operator.
Terms ==
    {<<"id">>, <<"1">>, <<"1.5">>, <<"true">>, <<"false">>, <<"(", ")">>, <<"[", "]">>,
     <<"{", "}">>, <<"id", "(", "id", ")">>, <<"id", ".", "id">>}

PrefixInputs ==
    {p \o t \o <<";">> : p \in SeqsUpTo(PrefixTexts, MaxPrefix), t \in Terms}
    \cup {p \o <<"id", o, "id", ";">> :
            p \in SeqsUpTo(PrefixTexts, MaxPrefix), o \in BinOpTexts \cup AssignOpTexts}
    \cup {<<"id", o>> \o p \o <<"id", ";">> :
            p \in SeqsUpTo(PrefixTexts, MaxPrefix), o \in BinOpTexts \cup AssignOpTexts}

\* The body of a delimited list: n items separated by commas, each separator
\* written `sep` times, followed by `trail` more commas.
RECURSIVE ListBody(_, _, _, _)
ListBody(item, n, sep, trail) ==
    IF n = 0 THEN [k \in 1..trail |-> ","]
    ELSE IF n = 1 THEN item \o [k \in 1..trail |-> ","]
    ELSE item \o [k \in 1..sep |-> ","] \o ListBody(item, n - 1, sep, trail)

ListBodies(item) ==
    {ListBody(item, n, sep, trail) : n \in 0..MaxItems, sep \in 1..2, trail \in 0..2}

\* The delimited lists of the grammar, each in its context: tuple and array
\* literals, call arguments, tuple patterns, parameter lists, tuple types.
ListInputs ==
    {<<"(">> \o b \o <<")", ";">> : b \in ListBodies(<<"id">>)}
    \cup {<<"[">> \o b \o <<"]", ";">> : b \in ListBodies(<<"id">>)}
    \cup {<<"id", "(">> \o b \o <<")", ";">> : b \in ListBodies(<<"id">>)}
    \cup {<<"let", "(">> \o b \o <<")", "=", "1", ";">> : b \in ListBodies(<<"id">>)}
    \cup {<<"fn", "id", "(">> \o b \o <<")", "{", "}">> : b \in ListBodies(<<"id", ":", "id">>)}
    \cup {<<"fn", "id", "(", "id", ":", "(">> \o b \o <<")", ")", "{", "}">> :
            b \in ListBodies(<<"id">>)}

\* Documentation-comment lines and ordinary comments before a function
\* definition.
DocTexts == {"///a", "///b", "//"}
DocInputs ==
    {p \o <<"fn", "id", "(", ")", "{", "}">> : p \in SeqsUpTo(DocTexts, MaxDocs)}

\* Postfix chains: a term followed by up to MaxSuffix suffixes, alone, under
\* a prefix operator and as the right operand of a binary operator; and a
\* chain followed by a `.` that no identifier follows.
Suffixes == {<<"(", "id", ")">>, <<"(", ")">>, <<".", "id">>}

RECURSIVE Flat(_)
Flat(ss) == IF ss = <<>> THEN <<>> ELSE ss[1] \o Flat(Tail(ss))

NotIdent == {";", "(", "1", ".", "+"}

PostfixInputs ==
    UNION {{<<"id">> \o Flat(ss) \o <<";">>,
            <<"-", "id">> \o Flat(ss) \o <<";">>,
            <<"id", "+", "id">> \o Flat(ss) \o <<";">>}
           \cup {<<"id">> \o Flat(ss) \o <<".", t>> : t \in NotIdent}
           : ss \in SeqsUpTo(Suffixes, MaxSuffix)}

\* Blocks whose items are followed, or not, by the statement terminator.
BlockInputs ==
    {<<"{", "}", ";">>,
     <<"{", "id", "}">>,
     <<"{", "id", "}", ";">>,
     <<"{", "id", ";", "}", ";">>,
     <<"{", "id", ";", "id", "}", ";">>,
     <<"{", "let", "id", "=", "1", ";", "id", "}", ";">>,
     <<"{", "fn", "id", "(", ")", "{", "}", "id", ";", "}", ";">>}

\* An operator followed by the end of input or by a token that starts no
\* expression: after a binary or assignment operator, after a prefix
\* operator, and after a prefix operator that follows a binary operator.
NoOperand == {")", "]", "}", ",", ";", ".", "=", "*", "or", "fn", "let", "//", "///a"}

OperandInputs ==
    UNION {{<<"id", o>>} \cup {<<"id", o, t>> : t \in NoOperand}
           \cup UNION {{<<"id", o, p>>} \cup {<<"id", o, p, t>> : t \in NoOperand}
                       : p \in PrefixTexts}
           : o \in BinOpTexts \cup AssignOpTexts}
    \cup UNION {{<<p>>} \cup {<<p, t>> : t \in NoOperand} : p \in PrefixTexts}

\* Sample programs.
Seeds ==
    {<<"fn", "id", "(", "id", ":", ")", "{", "}", "let", "id", "=", "1", ";">>,
     <<"let", "id", "=", "1", ";", "fn", "id", "(", "id", ":", ")", "{", "}">>,
     <<"let", "id", "=", "1", ";", ")">>,
     <<"let", "id", "=", "1", ";", "id", ";">>,
     <<"fn", "id", "(", "id", ":", "[", "id", "]", ")", "{", "id", ";", "}">>,
     <<"///a", "///b", "fn", "id", "(", ")", "{", "}">>,
     <<"id", "(", "id", ")", ".", "id", "(", "id", ")", ";">>,
     <<"{", "let", "id", "=", "1", ";", "}", ";">>,
     <<"let", "id", "=", "[", "1", "]", ";">>,
     <<"let", "(", "id", ",", "id", ")", "=", "(", "1", ",", "1.5", ")", ";">>,
     <<"id", "=", "not", "true", "or", "false", ";", "///a">>}

\* A seed with one token replaced, removed or inserted.
Replaced(q, k, t) == [q EXCEPT ![k] = t]
Removed(q, k) == SubSeq(q, 1, k - 1) \o SubSeq(q, k + 1, Len(q))
Inserted(q, k, t) == SubSeq(q, 1, k) \o <<t>> \o SubSeq(q, k + 1, Len(q))

SeedInputs ==
    Seeds
    \cup UNION {{Replaced(q, k, t) : k \in 1..Len(q), t \in Alphabet} : q \in Seeds}
    \cup UNION {{Removed(q, k) : k \in 1..Len(q)} : q \in Seeds}
    \cup UNION {{Inserted(q, k, t) : k \in 0..Len(q), t \in Alphabet} : q \in Seeds}

Inputs ==
    ShortInputs \cup OpPairInputs \cup PrefixInputs \cup ListInputs \cup DocInputs
    \cup PostfixInputs \cup BlockInputs \cup OperandInputs
    \cup SeedInputs

----------------------------------------------------------------------------
(* parse()                                                                 *)

Ok(v) == [tag |-> "Ok", items |-> v, errors |-> <<>>]
Failed(es) == [tag |-> "Err", items |-> <<>>, errors |-> es]

Init ==
    /\ \E text \in Inputs : tokens = lex(Values(text))
    /\ index = 0
    /\ errors = <<>>
    /\ items = <<>>
    /\ pc = "items"
    /\ result = <<>>

\* One iteration of `while let Some(item) = parser.try_item().map_err(..)?`,
\* by the result r of try_item(): Ok(Some(item)) pushes the item.
ParseItemSome(r) ==
    /\ r.tag = "Some"
    /\ items' = Append(items, r.val)
    /\ index' = r.idx
    /\ UNCHANGED <<tokens, errors, pc, result>>

\* ParseItemNone with the cursor put back at the first token.
ParseItemNone_rewind(r) ==
    /\ r.tag = "None"
    /\ index' = 0
    /\ pc' = "eof"
    /\ UNCHANGED <<tokens, errors, items, result>>

\* Ok(None): the loop ends.
ParseItemNone(r) ==
    /\ r.tag = "None"
    /\ index' = r.idx
    /\ pc' = "eof"
    /\ UNCHANGED <<tokens, errors, items, result>>

\* ParseItemErr with recovery: the diagnostic is recorded and parse() goes
\* on to the end-of-input check.
ParseItemErr_recover(r) ==
    /\ r.tag = "Err"
    /\ index' = r.idx
    /\ errors' = Append(errors, r.err)
    /\ pc' = "eof"
    /\ UNCHANGED <<tokens, items, result>>

\* Err(e): `.map_err(|e| vec![e])?` returns from parse().
ParseItemErr(r) ==
    /\ r.tag = "Err"
    /\ index' = r.idx
    /\ result' = <<Failed(<<r.err>>)>>
    /\ pc' = "returned"
    /\ UNCHANGED <<tokens, errors, items>>

ParseItem ==
    /\ pc = "items"
    /\ \E r \in {call("try_item", tokens, index, <<>>)} :
          \/ ParseItemSome(r)
          \/ ParseItemNone(r)
          \/ ParseItemErr(r)

\* The cursor after `parser.next_token_map::<()>(|_| None)`.
eof_index(toks, i) == next_token_map(toks, i, FnNever).idx

\* After the loop: no token is left and parse() returns the items.
ParseEofOk ==
    /\ pc = "eof"
    /\ LET j == eof_index(tokens, index) IN
       /\ j = Len(tokens)
       /\ index' = j
       /\ result' = <<IF errors = <<>> THEN Ok(items) ELSE Failed(errors)>>
    /\ pc' = "returned"
    /\ UNCHANGED <<tokens, errors, items>>

\* ParseEofTrailing without the test of the index against tokens.len().
ParseEofTrailing_unconditional ==
    /\ pc = "eof"
    /\ LET j == eof_index(tokens, index) IN
       /\ index' = j
       /\ errors' = Append(errors, expected(tokens, j, <<ExpEof>>))
       /\ result' = <<Failed(errors')>>
    /\ pc' = "returned"
    /\ UNCHANGED <<tokens, items>>

\* After the loop: a token is left and parse() reports it.
ParseEofTrailing ==
    /\ pc = "eof"
    /\ LET j == eof_index(tokens, index) IN
       /\ j # Len(tokens)
       /\ index' = j
       /\ errors' = Append(errors, expected(tokens, j, <<ExpEof>>))
       /\ result' = <<Failed(errors')>>
    /\ pc' = "returned"
    /\ UNCHANGED <<tokens, items>>

\* parse() as a function of the token sequence: the result it returns.
parse(toks) ==
    LET body == call("item_loop", toks, 0, <<<<>>>>) IN
    IF body.tag = "Err" THEN Failed(<<body.err>>) ELSE
    LET j == eof_index(toks, body.idx) IN
    IF j # Len(toks)
    THEN Failed(<<expected(toks, j, <<ExpEof>>)>>)
    ELSE Ok(body.val)

Next ==
    \/ ParseItem
    \/ ParseEofOk
    \/ ParseEofTrailing

Spec == Init /\ [][Next]_vars

----------------------------------------------------------------------------
(* Properties                                                              *)

Returned == pc = "returned"
Input(text) == tokens = lex(Values(text))
Succeeded == Returned /\ result[1].tag = "Ok"

\* parse() has returned on an input of n tokens; on an input of at least n
\* tokens that ends with one of the given token texts.
ReturnedOn(n) == Returned /\ Len(tokens) = n
ReturnedEnding(n, ends) ==
    Returned /\ Len(tokens) >= n /\ \E t \in ends : tokens[Len(tokens)].value = Tok(t)

\* Trees written out independently of the parser: the leaf for the
\* identifier at token k, and the binary, unary and assignment nodes with
\* their operator at token k.
IdAt(k) == Sp(TokenSpan(k), [kind |-> "Ident", name |-> "x"])

BinOpName(o) ==
    CASE o = "or" -> "Or" [] o = "and" -> "And"
      [] o = "==" -> "Eq" [] o = "!=" -> "Ne" [] o = "<" -> "Lt"
      [] o = "<=" -> "Le" [] o = ">" -> "Gt" [] o = ">=" -> "Ge"
      [] o = "+" -> "Add" [] o = "-" -> "Sub" [] o = "*" -> "Mul" [] o = "/" -> "Div"

\* The ladder or < and < comparison < additive < multiplicative.
TierOf(o) ==
    CASE o = "or" -> 1
      [] o = "and" -> 2
      [] o \in {"==", "!=", "<", "<=", ">", ">="} -> 3
      [] o \in {"+", "-"} -> 4
      [] o \in {"*", "/"} -> 5

BinOf(l, o, k, r) ==
    Sp(Span(l.span.start, r.span.end),
       [kind |-> "Bin", lhs |-> l, op |-> Sp(TokenSpan(k), BinOpName(o)), rhs |-> r])

AssignOpName(o) ==
    CASE o = "=" -> <<>> [] o = "+=" -> <<"Add">> [] o = "-=" -> <<"Sub">>
      [] o = "*=" -> <<"Mul">> [] o = "/=" -> <<"Div">>

AssignOf(l, o, k, r) ==
    Sp(Span(l.span.start, r.span.end),
       [kind |-> "Assign",
        lvalue |-> l,
        op |-> IF AssignOpName(o) = <<>> THEN <<>> ELSE <<Sp(TokenSpan(k), AssignOpName(o)[1])>>,
        expr |-> r])

UnOf(o, k, e) ==
    Sp(Span(TokenSpan(k).start, e.span.end),
       [kind |-> "Un", op |-> Sp(TokenSpan(k), IF o = "-" THEN "Neg" ELSE "Not"), expr |-> e])

\* The prefix operators p[k..] at the tokens from + k .. applied to e.
RECURSIVE UnChain(_, _, _, _)
UnChain(p, k, from, e) ==
    IF k > Len(p) THEN e ELSE UnOf(p[k], from + k, UnChain(p, k + 1, from, e))

\* parse() returned exactly the expression statement e.
ReturnedExpr(e) == Returned /\ result = <<Ok(<<[kind |-> "Expr", expr |-> e]>>)>>

\* C1: for two binary operators OP1, OP2 of the same tier, `a OP1 b OP2 c`
\* parses as Bin(Bin(a, OP1, b), OP2, c): left associativity.
C1_LeftAssoc ==
    ReturnedOn(6)
    => \A o1 \in BinOpTexts, o2 \in BinOpTexts :
        (TierOf(o1) = TierOf(o2) /\ Input(<<"id", o1, "id", o2, "id", ";">>))
        => ReturnedExpr(BinOf(BinOf(IdAt(1), o1, 2, IdAt(3)), o2, 4, IdAt(5)))

C1_Witness ==
    /\ Input(<<"id", "==", "id", "<", "id", ";">>)
    /\ Succeeded
    /\ result[1].items[1].expr.value.lhs.value.kind = "Bin"

\* C2: for two binary operators of different tiers, in either order, the
\* node of the tighter operator is a child of the node of the looser one.
C2_Precedence ==
    ReturnedOn(6)
    => \A o1 \in BinOpTexts, o2 \in BinOpTexts :
        (TierOf(o1) # TierOf(o2) /\ Input(<<"id", o1, "id", o2, "id", ";">>))
        => IF TierOf(o1) < TierOf(o2)
           THEN ReturnedExpr(BinOf(IdAt(1), o1, 2, BinOf(IdAt(3), o2, 4, IdAt(5))))
           ELSE ReturnedExpr(BinOf(BinOf(IdAt(1), o1, 2, IdAt(3)), o2, 4, IdAt(5)))

C2_Witness ==
    /\ Input(<<"id", "+", "id", "*", "id", ";">>)
    /\ Succeeded
    /\ result[1].items[1].expr.value.op.value = "Add"
    /\ result[1].items[1].expr.value.rhs.value.kind = "Bin"
    /\ result[1].items[1].expr.value.rhs.value.op.value = "Mul"

\* C3: for assignment operators A1, A2, `a A1 b A2 c` parses as
\* Assign(a, op(A1), Assign(b, op(A2), c)), op(=) absent and op(+=), op(-=),
\* op(*=), op(/=) being Add, Sub, Mul, Div.
C3_AssignRightAssoc ==
    ReturnedOn(6)
    => \A a1 \in AssignOpTexts, a2 \in AssignOpTexts :
        Input(<<"id", a1, "id", a2, "id", ";">>)
        => ReturnedExpr(AssignOf(IdAt(1), a1, 2, AssignOf(IdAt(3), a2, 4, IdAt(5))))

C3_Witness ==
    /\ Input(<<"id", "=", "id", "-=", "id", ";">>)
    /\ Succeeded
    /\ result[1].items[1].expr.value.op = <<>>
    /\ result[1].items[1].expr.value.expr.value.kind = "Assign"
    /\ result[1].items[1].expr.value.expr.value.op[1].value = "Sub"

\* The last token before the cursor that is not an ordinary comment.
RECURSIVE LastConsumed(_)
LastConsumed(i) ==
    IF i = 0 THEN <<>>
    ELSE IF tokens[i].value.kind = "Comment" THEN LastConsumed(i - 1)
    ELSE <<tokens[i].value>>

\* C4: parse() fails fast. A failed parse returns exactly one diagnostic and
\* zero items, whatever items were collected before; the diagnostic is
\* located at the cursor, so no token after the failure point was consumed;
\* and when the last token consumed is the `:` of a parameter, the
\* diagnostic expects exactly a Type.
C4_FailFast ==
    (Returned /\ result[1].tag = "Err")
    => /\ Len(result[1].errors) = 1
       /\ result[1].items = <<>>
       /\ LET e == result[1].errors[1] IN
          /\ e.value.found = IF index < Len(tokens) THEN <<tokens[index + 1]>> ELSE <<>>
          /\ index < Len(tokens) => e.span = tokens[index + 1].span
          /\ e.value.exps # <<ExpEof>> => errors = <<>>
          /\ LastConsumed(index) = <<Simple(":")>> => e.value.exps = <<ExpType>>

\* `let x = 1; fn f(x: ) {}`: one item was collected, the Type diagnostic is
\* at the `)`, and the result carries no item.
C4_Witness ==
    /\ Input(<<"let", "id", "=", "1", ";", "fn", "id", "(", "id", ":", ")", "{", "}">>)
    /\ Returned
    /\ Len(items) = 1
    /\ index = 10
    /\ result[1].tag = "Err"
    /\ result[1].items = <<>>
    /\ result[1].errors = <<Sp(TokenSpan(11), [exps |-> <<ExpType>>, found |-> <<tokens[11]>>])>>

\* C5: when the item loop has ended without a grammar failure and a token is
\* left, that token is not a comment, parse() keeps the items collected and
\* returns exactly one diagnostic, expecting exactly Eof, whose span is the
\* token's span and whose `found` is the token.
C5_TrailingToken ==
    [][(pc = "eof" /\ index < Len(tokens))
       => /\ tokens[index + 1].value.kind # "Comment"
          /\ pc' = "returned"
          /\ items' = items
          /\ result' = <<Failed(<<Sp(tokens[index + 1].span,
                                    [exps |-> <<ExpEof>>,
                                     found |-> <<tokens[index + 1]>>])>>)>>]_vars

\* `let x = 1; )`: the binding was collected and the `)` is reported.
C5_Witness ==
    /\ Input(<<"let", "id", "=", "1", ";", ")">>)
    /\ Returned
    /\ Len(items) = 1
    /\ items[1].kind = "Binding"
    /\ result = <<Failed(<<Sp(TokenSpan(6), [exps |-> <<ExpEof>>, found |-> <<tokens[6]>>])>>)>>

\* The spans of the documentation strings recorded in an item or expression.
RECURSIVE ItemDocs(_), ExprDocs(_)
ItemDocs(it) ==
    CASE it.kind = "FunctionDef" ->
            (IF it.doc = <<>> THEN {} ELSE {it.doc[1].span})
            \cup UNION {ItemDocs(it.body.items[k]) : k \in DOMAIN it.body.items}
      [] it.kind = "Binding" -> ExprDocs(it.expr)
      [] it.kind = "Expr" -> ExprDocs(it.expr)

ExprDocs(e) ==
    LET v == e.value IN
    CASE v.kind = "Block" -> UNION {ItemDocs(v.items[k]) : k \in DOMAIN v.items}
      [] v.kind \in {"Tuple", "Array"} -> UNION {ExprDocs(v.items[k]) : k \in DOMAIN v.items}
      [] v.kind = "Un" -> ExprDocs(v.expr)
      [] v.kind = "Bin" -> ExprDocs(v.lhs) \cup ExprDocs(v.rhs)
      [] v.kind = "Call" ->
            ExprDocs(v.expr) \cup UNION {ExprDocs(v.args[k]) : k \in DOMAIN v.args}
      [] v.kind = "Access" -> ExprDocs(v.expr)
      [] v.kind = "Assign" -> ExprDocs(v.lvalue) \cup ExprDocs(v.expr)
      [] OTHER -> {}

\* The tokens (numbered from 1) consumed by the try_item() calls, from cursor
\* i on, that returned an item.
RECURSIVE ItemTokens(_)
ItemTokens(i) ==
    LET r == call("try_item", tokens, i, <<>>) IN
    IF r.tag = "Some" THEN (i + 1 .. r.idx) \cup ItemTokens(r.idx) ELSE {}

\* Token k belongs to one of the returned items: a call that returned an
\* item consumed it and, for a documentation comment, the item records it.
BelongsToItem(k, its) ==
    /\ k \in ItemTokens(0)
    /\ tokens[k].value.kind = "DocComment"
       => \E j \in DOMAIN its : \E d \in ItemDocs(its[j]) :
             d.start <= tokens[k].span.start /\ tokens[k].span.end <= d.end

\* The position where an item starts, documentation aside.
ItemStart(it) ==
    CASE it.kind = "FunctionDef" -> it.name.span.start
      [] it.kind = "Binding" -> it.pattern.span.start
      [] it.kind = "Expr" -> it.expr.span.start

\* C6: whenever parse() returns success, the cursor equals the length of the
\* token sequence, every token that is not an ordinary comment belongs to
\* one of the returned items, and the items are in source order.
C6_AllConsumed ==
    Succeeded
    => /\ index = Len(tokens)
       /\ \A k \in DOMAIN tokens :
             tokens[k].value.kind # "Comment" => BelongsToItem(k, result[1].items)
       /\ \A j \in 1 .. Len(result[1].items) - 1 :
             ItemStart(result[1].items[j]) < ItemStart(result[1].items[j + 1])

\* The delimited lists of the grammar: the text of each around a list body,
\* the text of one item, the close delimiter, and the list in the result.
ListContexts == {"tuple", "array", "call", "pattern", "params", "tuple_type"}

ListText(ctx, b) ==
    CASE ctx = "tuple" -> <<"(">> \o b \o <<")", ";">>
      [] ctx = "array" -> <<"[">> \o b \o <<"]", ";">>
      [] ctx = "call" -> <<"id", "(">> \o b \o <<")", ";">>
      [] ctx = "pattern" -> <<"let", "(">> \o b \o <<")", "=", "1", ";">>
      [] ctx = "params" -> <<"fn", "id", "(">> \o b \o <<")", "{", "}">>
      [] ctx = "tuple_type" -> <<"fn", "id", "(", "id", ":", "(">> \o b \o <<")", ")", "{", "}">>

ListItemText(ctx) == IF ctx = "params" THEN <<"id", ":", "id">> ELSE <<"id">>

ListClose(ctx) == IF ctx = "array" THEN "]" ELSE ")"

ListOf(ctx, res) ==
    LET it == res.items[1] IN
    CASE ctx \in {"tuple", "array"} -> it.expr.value.items
      [] ctx = "call" -> it.expr.value.args
      [] ctx = "pattern" -> it.pattern.value.items
      [] ctx = "params" -> it.params
      [] ctx = "tuple_type" -> it.params[1].ty.value.items

\* C7: in every delimited list of the grammar, zero items are accepted and
\* yield the empty list; n >= 1 items followed by one trailing separator
\* yield the same list of n items as without it; and a separator with no
\* item before it, or next to another separator, is rejected with one
\* diagnostic that expects the close delimiter and found the separator.
C7_DelimitedList ==
    ReturnedEnding(3, {";", "}"})
    => \A ctx \in ListContexts, n \in 0..MaxItems, sep \in 1..2, trail \in 0..2 :
        Input(ListText(ctx, ListBody(ListItemText(ctx), n, sep, trail)))
        => IF (sep = 1 \/ n <= 1) /\ trail <= (IF n = 0 THEN 0 ELSE 1)
           THEN /\ Succeeded
                /\ Len(result[1].items) = 1
                /\ Len(ListOf(ctx, result[1])) = n
                /\ ListOf(ctx, result[1])
                   = ListOf(ctx, parse(lex(Values(
                        ListText(ctx, ListBody(ListItemText(ctx), n, 1, 0))))))
           ELSE /\ result[1].tag = "Err"
                /\ Len(result[1].errors) = 1
                /\ result[1].errors[1].value.exps = <<ExpSimple(ListClose(ctx))>>
                /\ result[1].errors[1].value.found = <<tokens[index + 1]>>
                /\ tokens[index + 1].value = Simple(",")

\* `fn f(x: t, x: t, x: t,) {}`: three parameters and a trailing separator.
C7_Witness ==
    /\ Input(ListText("params", ListBody(<<"id", ":", "id">>, 3, 1, 1)))
    /\ Succeeded
    /\ Len(result[1].items[1].params) = 3
    /\ index = Len(tokens)

\* C8 as stated: `(a,)` and `(a)` both parse as tuple literals, and the two
\* results differ in their element count.
C8_DistinguishedByCount ==
    (Returned /\ Input(<<"(", "id", ",", ")", ";">>))
    => LET other == parse(lex(Values(<<"(", "id", ")", ";">>))) IN
       /\ Succeeded
       /\ other.tag = "Ok"
       /\ result[1].items[1].expr.value.kind = "Tuple"
       /\ other.items[1].expr.value.kind = "Tuple"
       /\ Len(result[1].items[1].expr.value.items) # Len(other.items[1].expr.value.items)

\* C8, amended: `(a,)` and `(a)` both parse as tuple literals with the same
\* single element a; the two nodes differ only in where their span ends, at
\* the `)` after the separator or at the `)` after a.
C8_SameSingleElement ==
    /\ (Returned /\ Input(<<"(", "id", ",", ")", ";">>))
       => ReturnedExpr(Sp(Span(TokenSpan(1).start, TokenSpan(4).end),
                          [kind |-> "Tuple", items |-> <<IdAt(2)>>]))
    /\ (Returned /\ Input(<<"(", "id", ")", ";">>))
       => ReturnedExpr(Sp(Span(TokenSpan(1).start, TokenSpan(3).end),
                          [kind |-> "Tuple", items |-> <<IdAt(2)>>]))

C8_Witness ==
    /\ Input(<<"(", "id", ",", ")", ";">>)
    /\ Succeeded
    /\ result[1].items[1].expr.value.kind = "Tuple"
    /\ Len(result[1].items[1].expr.value.items) = 1
    /\ result[1].items[1].expr.value.items
       = parse(lex(Values(<<"(", "id", ")", ";">>))).items[1].expr.value.items

\* A span that starts where a token starts and ends where a token ends, with
\* the first and the last token it encloses.
WellFormed(sp) ==
    /\ sp.start % 2 = 0
    /\ sp.end % 2 = 1
    /\ 0 <= sp.start
    /\ sp.start < sp.end
    /\ sp.end < 2 * Len(tokens)

FirstTok(sp) == tokens[(sp.start \div 2) + 1].value
LastTok(sp) == tokens[(sp.end \div 2) + 1].value

\* The span of exactly one token of the given kind.
OneToken(sp, kind) ==
    WellFormed(sp) /\ sp.end = sp.start + 1 /\ FirstTok(sp).kind = kind

\* The span from an opening delimiter to its closing delimiter.
Encloses(sp, open, close) ==
    WellFormed(sp) /\ FirstTok(sp) = Simple(open) /\ LastTok(sp) = Simple(close)

\* Every span in a type, pattern, expression or item runs from the first
\* token consumed to build the node to the last one.
RECURSIVE TypeSpans(_), PatternSpans(_), ExprSpans(_), ItemSpans(_)
TypeSpans(t) ==
    CASE t.value.kind = "Ident" -> OneToken(t.span, "Ident")
      [] t.value.kind = "Array" ->
            Encloses(t.span, "[", "]") /\ TypeSpans(t.value.inner)
      [] t.value.kind = "Tuple" ->
            /\ Encloses(t.span, "(", ")")
            /\ \A k \in DOMAIN t.value.items : TypeSpans(t.value.items[k])

PatternSpans(p) ==
    CASE p.value.kind = "Ident" -> OneToken(p.span, "Ident")
      [] p.value.kind = "Tuple" ->
            /\ Encloses(p.span, "(", ")")
            /\ \A k \in DOMAIN p.value.items : PatternSpans(p.value.items[k])

ExprSpans(e) ==
    LET v == e.value IN
    CASE v.kind = "Ident" -> OneToken(e.span, "Ident")
      [] v.kind = "Integer" -> OneToken(e.span, "Integer")
      [] v.kind = "Real" -> OneToken(e.span, "Real")
      [] v.kind = "Bool" -> OneToken(e.span, "Keyword")
      [] v.kind = "Block" ->
            /\ Encloses(e.span, "{", "}")
            /\ \A k \in DOMAIN v.items : ItemSpans(v.items[k])
      [] v.kind = "Tuple" ->
            /\ Encloses(e.span, "(", ")")
            /\ \A k \in DOMAIN v.items : ExprSpans(v.items[k])
      [] v.kind = "Array" ->
            /\ Encloses(e.span, "[", "]")
            /\ \A k \in DOMAIN v.items : ExprSpans(v.items[k])
      [] v.kind = "Un" ->
            /\ WellFormed(v.op.span)
            /\ e.span = Span(v.op.span.start, v.expr.span.end)
            /\ ExprSpans(v.expr)
      [] v.kind = "Bin" ->
            /\ WellFormed(v.op.span)
            /\ e.span = Span(v.lhs.span.start, v.rhs.span.end)
            /\ ExprSpans(v.lhs)
            /\ ExprSpans(v.rhs)
      [] v.kind = "Call" ->
            /\ WellFormed(e.span)
            /\ e.span.start = v.expr.span.start
            /\ LastTok(e.span) = Simple(")")
            /\ ExprSpans(v.expr)
            /\ \A k \in DOMAIN v.args : ExprSpans(v.args[k])
      [] v.kind = "Access" ->
            /\ OneToken(v.accessor.span, "Ident")
            /\ e.span = Span(v.expr.span.start, v.accessor.span.end)
            /\ ExprSpans(v.expr)
      [] v.kind = "Assign" ->
            /\ v.op # <<>> => OneToken(v.op[1].span, "Simple")
            /\ e.span = Span(v.lvalue.span.start, v.expr.span.end)
            /\ ExprSpans(v.lvalue)
            /\ ExprSpans(v.expr)

ItemSpans(it) ==
    CASE it.kind = "FunctionDef" ->
            /\ it.doc # <<>>
               => /\ WellFormed(it.doc[1].span)
                  /\ FirstTok(it.doc[1].span).kind = "DocComment"
                  /\ LastTok(it.doc[1].span).kind = "DocComment"
            /\ OneToken(it.name.span, "Ident")
            /\ \A k \in DOMAIN it.params :
                  OneToken(it.params[k].name.span, "Ident") /\ TypeSpans(it.params[k].ty)
            /\ \A k \in DOMAIN it.body.items : ItemSpans(it.body.items[k])
      [] it.kind = "Binding" -> PatternSpans(it.pattern) /\ ExprSpans(it.expr)
      [] it.kind = "Expr" -> ExprSpans(it.expr)

\* C9: span coverage. Every spanned node of every item the parser has built
\* (expressions, blocks, patterns, types including array and tuple types,
\* delimited lists, doc strings) has a span that starts at the start of the
\* first token consumed to build it and ends at the end of the last one.
C9_SpanCoverage == \A k \in DOMAIN items : ItemSpans(items[k])

\* The node kind of each term of Terms.
TermKind(t) ==
    CASE t = <<"id">> -> "Ident"
      [] t = <<"1">> -> "Integer"
      [] t = <<"1.5">> -> "Real"
      [] t \in {<<"true">>, <<"false">>} -> "Bool"
      [] t = <<"(", ")">> -> "Tuple"
      [] t = <<"[", "]">> -> "Array"
      [] t = <<"{", "}">> -> "Block"
      [] t = <<"id", "(", "id", ")">> -> "Call"
      [] t = <<"id", ".", "id">> -> "Access"

\* e is the chain of the prefix operators p[k..], one unary node for each,
\* in source order, around the term t; the operators are the first tokens.
RECURSIVE IsUnChain(_, _, _, _)
IsUnChain(e, p, k, t) ==
    IF k > Len(p)
    THEN /\ e.value.kind = TermKind(t)
         /\ e.span = Span(TokenSpan(Len(p) + 1).start, TokenSpan(Len(p) + Len(t)).end)
    ELSE /\ e.value.kind = "Un"
         /\ e.value.op = Sp(TokenSpan(k), IF p[k] = "-" THEN "Neg" ELSE "Not")
         /\ e.span = Span(TokenSpan(k).start, TokenSpan(Len(p) + Len(t)).end)
         /\ IsUnChain(e.value.expr, p, k + 1, t)

\* C10: n >= 1 prefix operators (each `-` or `not`) before a term t parse,
\* never with an error, as n nested unary nodes in source order with t
\* innermost; and on either side of a binary operator the unary chain is an
\* operand of the binary node, whatever the operator's tier.
C10_UnaryRightRecursive ==
    ReturnedEnding(3, {";"})
    => \A p \in SeqsUpTo(PrefixTexts, MaxPrefix) :
        Len(p) >= 1
        => /\ \A t \in Terms :
                 Input(p \o t \o <<";">>)
                 => /\ Succeeded
                    /\ Len(result[1].items) = 1
                    /\ result[1].items[1].kind = "Expr"
                    /\ IsUnChain(result[1].items[1].expr, p, 1, t)
           /\ \A o \in BinOpTexts :
                 /\ Input(p \o <<"id", o, "id", ";">>)
                    => ReturnedExpr(BinOf(UnChain(p, 1, 0, IdAt(Len(p) + 1)),
                                          o, Len(p) + 2, IdAt(Len(p) + 3)))
                 /\ Input(<<"id", o>> \o p \o <<"id", ";">>)
                    => ReturnedExpr(BinOf(IdAt(1), o, 2,
                                          UnChain(p, 1, 2, IdAt(Len(p) + 3))))

\* `- not - x * x;`: three nested unary nodes as the left operand of Mul.
C10_Witness ==
    /\ Input(<<"-", "not", "-", "id", "*", "id", ";">>)
    /\ Succeeded
    /\ result[1].items[1].expr.value.kind = "Bin"
    /\ result[1].items[1].expr.value.op.value = "Mul"
    /\ result[1].items[1].expr.value.lhs.value.kind = "Un"
    /\ result[1].items[1].expr.value.lhs.value.op.value = "Neg"
    /\ result[1].items[1].expr.value.lhs.value.expr.value.op.value = "Not"
    /\ result[1].items[1].expr.value.lhs.value.expr.value.expr.value.op.value = "Neg"
    /\ result[1].items[1].expr.value.lhs.value.expr.value.expr.value.expr = IdAt(4)

\* The first token that is neither a comment nor a documentation comment
\* (Len(tokens) + 1 if there is none), and the documentation lines before it.
FirstCode ==
    LET code == {k \in 1..Len(tokens) :
                    tokens[k].value.kind \notin {"Comment", "DocComment"}}
    IN IF code = {} THEN Len(tokens) + 1
       ELSE CHOOSE k \in code : \A j \in code : k <= j

DocLines == {k \in 1..(FirstCode - 1) : tokens[k].value.kind = "DocComment"}

\* The texts of the documentation lines among tokens 1..k, concatenated.
RECURSIVE DocText(_)
DocText(k) ==
    IF k = 0 THEN ""
    ELSE IF tokens[k].value.kind = "DocComment"
         THEN DocText(k - 1) \o tokens[k].value.text
         ELSE DocText(k - 1)

\* C11: when the input starts with k documentation-comment lines, ordinary
\* comments allowed among them, followed by `fn`, the function definition
\* built from it carries as doc the k line texts concatenated in order,
\* spanning from the start of the first line to the end of the last; with
\* k = 0 it carries no doc.
C11_DocAccumulation ==
    (items # <<>> /\ FirstCode <= Len(tokens) /\ tokens[FirstCode].value = Keyword("fn"))
    => /\ items[1].kind = "FunctionDef"
       /\ items[1].doc =
             IF DocLines = {} THEN <<>>
             ELSE <<Sp(Span(TokenSpan(CHOOSE k \in DocLines : \A j \in DocLines : k <= j).start,
                            TokenSpan(CHOOSE k \in DocLines : \A j \in DocLines : k >= j).end),
                       DocText(FirstCode - 1))>>

\* `///a // ///b fn f() {}`: two lines around an ordinary comment.
C11_Witness ==
    /\ Input(<<"///a", "//", "///b", "fn", "id", "(", ")", "{", "}">>)
    /\ Succeeded
    /\ result[1].items[1].doc = <<Sp(Span(0, 5), "ab")>>

\* The token sequence without its ordinary comments, every other token with
\* the span it has.
IsCode(t) == t.value.kind # "Comment"
Strip(toks) == SelectSeq(toks, IsCode)

\* Two results of parse() agree: both succeed with the same item trees, or
\* both fail with diagnostics of the same expectation lists and found tokens.
Agree(r1, r2) ==
    /\ r1.tag = r2.tag
    /\ r1.items = r2.items
    /\ Len(r1.errors) = Len(r2.errors)
    /\ \A k \in DOMAIN r1.errors : r1.errors[k].value = r2.errors[k].value

\* C12: ordinary comments are transparent. On a token sequence that holds
\* ordinary comments, anywhere from before the first token to after the
\* last, parse() returns what it returns on the sequence without them: the
\* same success or failure, the same item trees with the same spans, and on
\* failure the same expectation list and found token.
C12_CommentsTransparent ==
    (Returned /\ \E k \in DOMAIN tokens : ~IsCode(tokens[k]))
    => Agree(result[1], parse(Strip(tokens)))

\* `let x = 1; // c` followed by `)`: the diagnostic reports the `)` after
\* the comment, as it does without the comment.
C12_Witness ==
    /\ Input(<<"let", "id", "=", "1", ";", "//", ")">>)
    /\ Returned
    /\ result[1].tag = "Err"
    /\ result[1].errors[1].value.found = <<tokens[7]>>
    /\ parse(Strip(tokens)).errors[1].value.found = <<tokens[7]>>

\* The predicates tried at the cursor: every exact token of the alphabet and
\* the closures of the grammar.
Predicates ==
    {FnExact(Tok(t)) : t \in Alphabet} \cup {FnIdent, FnInteger, FnReal, FnDoc, FnNever}

\* The position (from 1) of the first token after the cursor that is not an
\* ordinary comment; Len(tokens) + 1 if there is none.
NextCode ==
    LET code == {k \in (index + 1)..Len(tokens) : IsCode(tokens[k])}
    IN IF code = {} THEN Len(tokens) + 1
       ELSE CHOOSE k \in code : \A j \in code : k <= j

\* next_token_map and try_exact, called at the cursor with the predicate f,
\* return the next non-comment token with its span and leave the cursor
\* just past it when f accepts it.
ConsumesMatch(f) ==
    (NextCode <= Len(tokens) /\ apply(f, tokens[NextCode].value) # <<>>)
    => /\ next_token_map(tokens, index, f) =
             [opt |-> <<Sp(tokens[NextCode].span, apply(f, tokens[NextCode].value)[1])>>,
              idx |-> NextCode]
       /\ f.fn = "exact"
          => try_exact(tokens, index, f.token) =
                [opt |-> <<tokens[NextCode].span>>, idx |-> NextCode]

Rejected(f) == NextCode > Len(tokens) \/ apply(f, tokens[NextCode].value) = <<>>

\* C13 as stated: a call of next_token_map or try_exact returns the next
\* non-comment token, spanned, and advances past it when the predicate
\* accepts it; otherwise it returns nothing and the cursor index is what it
\* was before the call.
C13_IndexUnchanged ==
    \A f \in Predicates :
        /\ ConsumesMatch(f)
        /\ Rejected(f)
           => /\ next_token_map(tokens, index, f) = [opt |-> <<>>, idx |-> index]
              /\ f.fn = "exact"
                 => try_exact(tokens, index, f.token) = [opt |-> <<>>, idx |-> index]

\* C13 as the code has it: when the predicate rejects the token, or none is
\* left, nothing is returned and the cursor has moved past the ordinary
\* comments that stood at it and past nothing else; it is unchanged when no
\* ordinary comment stands at the cursor.
C13_OnlyCommentsSkipped ==
    \A f \in Predicates :
        /\ ConsumesMatch(f)
        /\ Rejected(f)
           => /\ next_token_map(tokens, index, f) = [opt |-> <<>>, idx |-> NextCode - 1]
              /\ f.fn = "exact"
                 => try_exact(tokens, index, f.token) = [opt |-> <<>>, idx |-> NextCode - 1]

\* `let x = 1; // c` followed by `)`: after the binding the cursor stands on
\* the comment, and a rejected token leaves it on the `)`.
C13_Witness ==
    /\ Input(<<"let", "id", "=", "1", ";", "//", ")">>)
    /\ pc = "items"
    /\ index = 5
    /\ next_token_map(tokens, index, FnIdent) = [opt |-> <<>>, idx |-> 6]
    /\ try_exact(tokens, index, Simple(")")) = [opt |-> <<TokenSpan(7)>>, idx |-> 7]

\* The result r of a production called at the cursor is not "no match", or
\* every token the production moved the cursor past is an ordinary comment.
NonConsuming(r) ==
    r.tag = "None" => \A k \in (index + 1)..r.idx : ~IsCode(tokens[k])

\* C14: a try_* production that returns "no match" has consumed no
\* documentation comment and no other non-comment token; try_function_def
\* returning "no match" for want of `fn` leaves the documentation lines
\* before the cursor's next token unconsumed.  Each production is called at
\* the cursor.
C14_NoMatchNonConsuming ==
    /\ NonConsuming(try_function_def(tokens, index))
    /\ NonConsuming(try_item(tokens, index))
    /\ NonConsuming(try_binding(tokens, index))
    /\ NonConsuming(try_pattern(tokens, index))
    /\ NonConsuming(try_block(tokens, index))
    /\ NonConsuming(try_param(tokens, index))
    /\ NonConsuming(try_ty(tokens, index))
    /\ NonConsuming(try_expr(tokens, index))
    /\ NonConsuming(try_term(tokens, index))
    /\ \A item \in {"param", "pattern", "expr"} :
          NonConsuming(try_surrounded_list(tokens, index, "(", ")", item))
    /\ NonConsuming(try_surrounded_list(tokens, index, "[", "]", "expr"))

\* The diagnostic e is located at the cursor: on the lookahead token, which
\* is no ordinary comment, when one is left, and otherwise on a zero-width
\* span at the end of the last token, with no found token.
LocatedAtCursor(e) ==
    /\ e.value.exps # <<>>
    /\ IF index < Len(tokens)
       THEN /\ e.span = tokens[index + 1].span
            /\ e.value.found = <<tokens[index + 1]>>
            /\ IsCode(tokens[index + 1])
       ELSE /\ e.value.found = <<>>
            /\ e.span.start = e.span.end
            /\ e.span.end = tokens[Len(tokens)].span.end

\* C15: every diagnostic parse() returns has a non-empty expectation list
\* and is located at the failure point: on the lookahead token, never an
\* ordinary comment, if a token is left unconsumed; with no found token and
\* a zero-width span at the end of the last token of the input if none is.
C15_DiagnosticLocation ==
    (Returned /\ result[1].tag = "Err")
    => /\ result[1].errors # <<>>
       /\ \A k \in DOMAIN result[1].errors : LocatedAtCursor(result[1].errors[k])

\* `(` and a comment: the missing `)` is reported at the end of the comment,
\* the last token of the input.
C15_Witness ==
    /\ Input(<<"(", "//">>)
    /\ Returned
    /\ result[1].errors = <<Sp(Span(3, 3), [exps |-> <<ExpSimple(")")>>, found |-> <<>>])>>

\* The tree of the suffixes ss[k..] applied to e, the first of them
\* starting after token `at`: the suffix applied first is innermost.
RECURSIVE Chain(_, _, _, _)
Chain(e, ss, k, at) ==
    IF k > Len(ss) THEN e
    ELSE LET node ==
                 IF ss[k][1] = "."
                 THEN Sp(Span(e.span.start, TokenSpan(at + 2).end),
                         [kind |-> "Access", expr |-> e,
                          accessor |-> Sp(TokenSpan(at + 2), "x")])
                 ELSE Sp(Span(e.span.start, TokenSpan(at + Len(ss[k])).end),
                         [kind |-> "Call", expr |-> e,
                          args |-> IF Len(ss[k]) = 3 THEN <<IdAt(at + 2)>> ELSE <<>>])
         IN Chain(node, ss, k + 1, at + Len(ss[k]))

\* C16: a term followed by suffixes s1..sn, each an argument list or a `.`
\* and an identifier, parses as sn(...s2(s1(t))...), the earliest suffix
\* innermost; the chain is the operand of a prefix operator before it and
\* the right operand of a binary operator before it; and a `.` that no
\* identifier follows fails with a diagnostic expecting an identifier.
C16_PostfixChain ==
    ReturnedEnding(2, {";"} \cup NotIdent)
    => \A ss \in SeqsUpTo(Suffixes, MaxSuffix) :
          /\ Input(<<"id">> \o Flat(ss) \o <<";">>)
             => ReturnedExpr(Chain(IdAt(1), ss, 1, 1))
          /\ Input(<<"-", "id">> \o Flat(ss) \o <<";">>)
             => ReturnedExpr(UnOf("-", 1, Chain(IdAt(2), ss, 1, 2)))
          /\ Input(<<"id", "+", "id">> \o Flat(ss) \o <<";">>)
             => ReturnedExpr(BinOf(IdAt(1), "+", 2, Chain(IdAt(3), ss, 1, 3)))
          /\ \A t \in NotIdent :
                Input(<<"id">> \o Flat(ss) \o <<".", t>>)
                => result = <<Failed(<<Sp(tokens[Len(tokens)].span,
                                         [exps |-> <<ExpIdent>>,
                                          found |-> <<tokens[Len(tokens)]>>])>>)>>

\* `f(x).y(z);` is Call(Access(Call(f, [x]), y), [z]).
C16_Witness ==
    /\ Input(<<"id", "(", "id", ")", ".", "id", "(", "id", ")", ";">>)
    /\ Succeeded
    /\ result[1].items[1].expr.value.kind = "Call"
    /\ result[1].items[1].expr.value.args = <<IdAt(8)>>
    /\ result[1].items[1].expr.value.expr.value.kind = "Access"
    /\ result[1].items[1].expr.value.expr.value.expr.value.kind = "Call"
    /\ result[1].items[1].expr.value.expr.value.expr.value.expr = IdAt(1)

\* The position (from 1) of the first token after position i whose kind is
\* not in `kinds`; Len(tokens) + 1 if there is none.
CodeAfter(i, kinds) ==
    LET code == {k \in (i + 1)..Len(tokens) : tokens[k].value.kind \notin kinds}
    IN IF code = {} THEN Len(tokens) + 1
       ELSE CHOOSE k \in code : \A j \in code : k <= j

\* try_item called at the cursor: a function definition (or its error) when
\* `fn` is next, a binding (or its error) when `let` is next, and otherwise
\* the expression at the cursor as a statement if and only if `;` follows
\* it, an error expecting `;` if anything else does, and "no item" without
\* error if no expression starts there.
DispatchAtCursor ==
    LET k == CodeAfter(index, {"Comment", "DocComment"})
        r == try_item(tokens, index)
        e == try_expr(tokens, k - 1)
        n == IF e.tag = "Some" THEN CodeAfter(e.idx, {"Comment"}) ELSE 0
    IN
    IF k <= Len(tokens) /\ tokens[k].value = Keyword("fn")
    THEN r.tag = "Err" \/ (r.tag = "Some" /\ r.val.kind = "FunctionDef")
    ELSE IF k <= Len(tokens) /\ tokens[k].value = Keyword("let")
    THEN r.tag = "Err" \/ (r.tag = "Some" /\ r.val.kind = "Binding")
    ELSE IF e.tag = "None" THEN r.tag = "None"
    ELSE IF e.tag = "Err" THEN r = e
    ELSE IF n <= Len(tokens) /\ tokens[n].value = Simple(";")
    THEN r = Some([kind |-> "Expr", expr |-> e.val], n)
    ELSE /\ r.tag = "Err"
         /\ r.idx = n - 1
         /\ r.err.value =
               [exps |-> <<ExpSimple(";")>>,
                found |-> IF n <= Len(tokens) THEN <<tokens[n]>> ELSE <<>>]

\* parse() failed with the diagnostic "expected `;`" on token k.
MissingSemiAt(k) ==
    result = <<Failed(<<Sp(TokenSpan(k), [exps |-> <<ExpSimple(";")>>,
                                          found |-> <<tokens[k]>>])>>)>>

\* parse() succeeded with one expression statement, a block of n items.
BlockOf(n) ==
    /\ Succeeded
    /\ Len(result[1].items) = 1
    /\ result[1].items[1].kind = "Expr"
    /\ result[1].items[1].expr.value.kind = "Block"
    /\ Len(result[1].items[1].expr.value.items) = n

\* C17: try_item tries function definition, then binding, then expression
\* statement; an expression is a statement only when `;` follows it, at top
\* level and inside a block alike, the last item before `}` included; when
\* the lookahead starts none of the three, try_item reports "no item"
\* without error and the enclosing loop stops.
C17_ItemDispatch ==
    /\ DispatchAtCursor
    /\ (pc = "eof" /\ errors = <<>>) => try_item(tokens, index).tag = "None"
    /\ Returned
       => /\ Input(<<"{", "}", ";">>) => BlockOf(0)
          /\ Input(<<"{", "id", "}">>) => MissingSemiAt(3)
          /\ Input(<<"{", "id", "}", ";">>) => MissingSemiAt(3)
          /\ Input(<<"{", "id", ";", "}", ";">>) => BlockOf(1)
          /\ Input(<<"{", "id", ";", "id", "}", ";">>) => MissingSemiAt(5)
          /\ Input(<<"{", "let", "id", "=", "1", ";", "id", "}", ";">>) => MissingSemiAt(8)
          /\ Input(<<"{", "fn", "id", "(", ")", "{", "}", "id", ";", "}", ";">>)
             => BlockOf(2)

\* `{ x }`: the expression before `}` is no statement.
C17_Witness ==
    /\ Input(<<"{", "id", "}">>)
    /\ Returned
    /\ MissingSemiAt(3)

\* parse() failed with the diagnostic "expected expression", the operand
\* missing at token k: found is that token, or absent when only ordinary
\* comments or nothing is left there.
OperandMissingAt(k) ==
    /\ Returned
    /\ result[1].tag = "Err"
    /\ Len(result[1].errors) = 1
    /\ result[1].errors[1].value =
          [exps |-> <<ExpExpr>>,
           found |-> IF k <= Len(tokens) /\ IsCode(tokens[k]) THEN <<tokens[k]>> ELSE <<>>]

\* C18: once an operator token is consumed its operand is mandatory. After
\* a binary operator of any tier, an assignment operator or a prefix
\* operator, when no expression starts at the lookahead, parse() fails
\* with a diagnostic expecting Expression; and the right operand of a
\* binary operator is an expression of the next tighter tier: an operator of
\* the same or a looser tier after it is not part of it, one of a tighter
\* tier is.
C18_OperandMandatory ==
    (Returned /\ Len(tokens) <= 6)
    => /\ \A o \in BinOpTexts \cup AssignOpTexts :
             /\ Input(<<"id", o>>) => OperandMissingAt(3)
             /\ \A t \in NoOperand : Input(<<"id", o, t>>) => OperandMissingAt(3)
             /\ \A p \in PrefixTexts :
                   /\ Input(<<"id", o, p>>) => OperandMissingAt(4)
                   /\ \A t \in NoOperand : Input(<<"id", o, p, t>>) => OperandMissingAt(4)
       /\ \A p \in PrefixTexts :
             /\ Input(<<p>>) => OperandMissingAt(2)
             /\ \A t \in NoOperand : Input(<<p, t>>) => OperandMissingAt(2)
       /\ \A o1 \in BinOpTexts, o2 \in BinOpTexts :
             Input(<<"id", o1, "id", o2, "id", ";">>)
             => /\ Succeeded
                /\ IF TierOf(o2) <= TierOf(o1)
                   THEN result[1].items[1].expr.value.lhs.value.rhs = IdAt(3)
                   ELSE result[1].items[1].expr.value.rhs =
                            BinOf(IdAt(3), o2, 4, IdAt(5))

\* `x * -` followed by `)`: both operators are consumed and the operand of
\* the second is missing.
C18_Witness ==
    /\ Input(<<"id", "*", "-", ")">>)
    /\ OperandMissingAt(4)
    /\ result[1].errors[1].span = TokenSpan(4)

\* The result r of a production called at the cursor leaves the cursor where
\* it was or further on, and further on when the production matched.
Advances(r) == r.idx >= index /\ (r.tag = "Some" => r.idx > index)

\* Every production called at the cursor advances.
ProductionsAdvance ==
    /\ Advances(try_item(tokens, index))
    /\ Advances(try_function_def(tokens, index))
    /\ Advances(try_binding(tokens, index))
    /\ Advances(try_pattern(tokens, index))
    /\ Advances(try_block(tokens, index))
    /\ Advances(try_param(tokens, index))
    /\ Advances(try_ty(tokens, index))
    /\ Advances(try_expr(tokens, index))
    /\ Advances(try_un_expr(tokens, index))
    /\ Advances(try_call_access(tokens, index))
    /\ Advances(try_term(tokens, index))
    /\ \A item \in {"param", "pattern", "expr"} :
          Advances(try_surrounded_list(tokens, index, "(", ")", item))

\* The steps parse() has left at most: three for every token not yet
\* consumed, and the steps from its position to the return.
Rank ==
    3 * (Len(tokens) - index)
    + (CASE pc = "items" -> 2 [] pc = "eof" -> 1 [] pc = "returned" -> 0)

\* C19: progress and termination. Before every step of parse() the index is
\* within 0..number of tokens and every production called at the cursor
\* leaves the index where it was or further on, further on when it matched;
\* the step does not decrease the index and keeps it within the tokens, an
\* iteration of the item loop that collects an item increases it, and the
\* step lowers the natural number Rank, so that parse() returns after
\* finitely many steps.
C19_Progress ==
    [][/\ index \in 0..Len(tokens)
       /\ ProductionsAdvance
       /\ index' \in index..Len(tokens)
       /\ items' # items => index' > index
       /\ Rank \in Nat /\ Rank' \in Nat
       /\ Rank' < Rank]_vars

\* Two items were collected, the cursor moving on each time, and parse()
\* returned at the end of the tokens.
C19_Witness ==
    /\ Input(<<"let", "id", "=", "1", ";", "id", ";">>)
    /\ Returned
    /\ Len(items) = 2
    /\ index = Len(tokens)

\* The token sequence holds nothing but ordinary comments (or nothing).
OnlyComments == \A k \in DOMAIN tokens : ~IsCode(tokens[k])

\* The result r of a production called at the cursor carries no diagnostic
\* spanned by the last token of an empty sequence.
NoPanic(r) == r.tag = "Err" => r.err.span # PanicSpan

\* C20: last_span() is never evaluated on an empty token sequence. No
\* diagnostic recorded or returned, and none a production raises at the
\* cursor, has the span of `tokens.last().unwrap()` on an empty sequence;
\* on an empty sequence no production raises a diagnostic at all; and on a
\* sequence that is empty or holds only ordinary comments parse() returns
\* Ok with no item and no diagnostic.
C20_LastSpanNonEmpty ==
    /\ \A k \in DOMAIN errors : errors[k].span # PanicSpan
    /\ Returned => \A k \in DOMAIN result[1].errors :
                      result[1].errors[k].span # PanicSpan
    /\ NoPanic(try_item(tokens, index))
    /\ NoPanic(try_block(tokens, index))
    /\ NoPanic(try_pattern(tokens, index))
    /\ NoPanic(try_param(tokens, index))
    /\ NoPanic(try_ty(tokens, index))
    /\ NoPanic(try_expr(tokens, index))
    /\ Len(tokens) = 0 => /\ try_item(tokens, index) = None(0)
                          /\ try_expr(tokens, index) = None(0)
                          /\ eof_index(tokens, index) = 0
    /\ OnlyComments => /\ try_item(tokens, index).tag = "None"
                       /\ eof_index(tokens, index) = Len(tokens)
    /\ (Returned /\ OnlyComments) => result = <<Ok(<<>>)>>

\* parse() returned Ok with no item on the empty token sequence.
C20_Witness ==
    /\ tokens = <<>>
    /\ Returned
    /\ result = <<Ok(<<>>)>>
    /\ index = 0

====
